---- MODULE Spec2Model ----
(***************************************************************************)
(* The recursive-descent parser of src/src/parse.ts as a stack machine.    *)
(*                                                                         *)
(* The call stack of the parse functions is the sequence `stack`; every    *)
(* frame holds the function's name, the basic block it is about to run     *)
(* (pc), the cursor position at which it was entered (at) and the          *)
(* function's local variables under their source names.  One action is one *)
(* basic block of one function: it runs up to the next call, return or     *)
(* throw and consumes at most one token.                                   *)
(*                                                                         *)
(* The token stream is the parser's input.  `toks` is the part of it the   *)
(* parser has looked at so far: a token is drawn when the parser first     *)
(* looks at it (hasMore, peek, expect) and never changes afterwards;       *)
(* `ended` says that the parser has found the end of the stream.           *)
(*                                                                         *)
(* `return f(l)` hands the callee's value on unchanged: a record waiting   *)
(* at pc "ret" is left in the step in which its callee returns.            *)
(*                                                                         *)
(* getStringText is a pure function on texts (sequences of characters);    *)
(* StrSpec applies it to every raw text of a bounded length.               *)
(***************************************************************************)
EXTENDS Naturals, Sequences, FiniteSets

VARIABLES toks, pos, ended, limit, stack, ret, status, error, result, raw, out

vars == <<toks, pos, ended, limit, stack, ret, status, error, result, raw, out>>

(* Longest token stream the parser is run on. *)
MaxLen == 6

(* Longest token stream of the runs whose termination is checked. *)
MaxLenLive == 5

(* Longest raw quoted text getStringText is applied to. *)
MaxRaw == 6

(***************************************************************************)
(* Characters and texts                                                    *)
(***************************************************************************)
SQ == "'"
DQ == "\""
BS == "\\"

Chars == {SQ, DQ, BS, "a"}

RECURSIVE replaceAll(_, _)
(* content.replace(/\\q/g, q): a left-to-right scan for backslash, q. *)
replaceAll(s, q) ==
  IF Len(s) < 2 THEN s
  ELSE IF s[1] = BS /\ s[2] = q
       THEN <<q>> \o replaceAll(SubSeq(s, 3, Len(s)), q)
       ELSE <<s[1]>> \o replaceAll(Tail(s), q)

RECURSIVE replaceFirst(_, _)
(* content.replace(/\\q/, q) without the g flag: the first match only. *)
replaceFirst(s, q) ==
  IF Len(s) < 2 THEN s
  ELSE IF s[1] = BS /\ s[2] = q
       THEN <<q>> \o SubSeq(s, 3, Len(s))
       ELSE <<s[1]>> \o replaceFirst(Tail(s), q)

getStringText_firstOnly(text) ==
  LET content == SubSeq(text, 2, Len(text) - 1)
  IN  IF text[1] = SQ THEN replaceFirst(content, SQ) ELSE replaceFirst(content, DQ)

getStringText(text) ==
  LET content == SubSeq(text, 2, Len(text) - 1)
  IN  IF text[1] = SQ THEN replaceAll(content, SQ) ELSE replaceAll(content, DQ)

(***************************************************************************)
(* Tokens                                                                  *)
(***************************************************************************)
TokenTypes ==
  { "semi", "letKw", "ident", "lParen", "rParen", "eq", "colon", "bareAtom",
    "quotedAtom", "string", "lBracket", "rBracket", "matchKw", "lCurly",
    "rCurly", "arrow", "wildcard", "amp", "comma" }

TokenText(ty) ==
  CASE ty = "semi" -> <<";">>
    [] ty = "letKw" -> <<"l", "e", "t">>
    [] ty = "ident" -> <<"x">>
    [] ty = "lParen" -> <<"(">>
    [] ty = "rParen" -> <<")">>
    [] ty = "eq" -> <<"=">>
    [] ty = "colon" -> <<":">>
    [] ty = "bareAtom" -> <<"a">>
    [] ty = "quotedAtom" -> <<SQ, "a", BS, SQ, SQ>>
    [] ty = "string" -> <<DQ, "a", BS, DQ, DQ>>
    [] ty = "lBracket" -> <<"[">>
    [] ty = "rBracket" -> <<"]">>
    [] ty = "matchKw" -> <<"m", "a", "t", "c", "h">>
    [] ty = "lCurly" -> <<"{">>
    [] ty = "rCurly" -> <<"}">>
    [] ty = "arrow" -> <<"=", ">">>
    [] ty = "wildcard" -> <<"_">>
    [] ty = "amp" -> <<"@">>
    [] ty = "comma" -> <<",">>

Token(ty) == [type |-> ty, text |-> TokenText(ty)]

Tokens == {Token(ty) : ty \in TokenTypes}

(* What the cursor finds past the last token. *)
EOF == [type |-> "eof", text |-> <<>>]

(***************************************************************************)
(* The token cursor (Lexer)                                                *)
(***************************************************************************)
(* The token under the cursor, EOF at the end of the stream: the one      *)
(* already looked at, or any token if the parser has not looked yet.      *)
Lookaheads ==
  IF pos < Len(toks) THEN {toks[pos + 1]}
  ELSE IF ended \/ Len(toks) >= limit THEN {EOF}
  ELSE Tokens \cup {EOF}

(* The parser looks at the token under the cursor and finds la. *)
look(la) ==
  /\ toks' = IF pos < Len(toks) \/ la = EOF THEN toks ELSE Append(toks, la)
  /\ ended' = (ended \/ la = EOF)
  /\ UNCHANGED limit

(* A block that does not look at the stream. *)
nolook == UNCHANGED <<toks, ended, limit>>

hasMore(la) == la # EOF

pop == pos' = pos + 1

stay == UNCHANGED pos

(***************************************************************************)
(* Calls, returns and exceptions                                           *)
(***************************************************************************)
Top == stack[Len(stack)]

Running(f, p) ==
  /\ status = "running"
  /\ stack # <<>>
  /\ Top.fn = f
  /\ Top.pc = p

goto(frame) ==
  /\ stack' = [stack EXCEPT ![Len(stack)] = frame]
  /\ UNCHANGED <<ret, status, error, result, raw, out>>

call(frame, callee) ==
  /\ stack' = Append([stack EXCEPT ![Len(stack)] = frame], callee)
  /\ UNCHANGED <<ret, status, error, result, raw, out>>

(* The caller a value returned now reaches: the innermost record below the *)
(* top that is not waiting at pc "ret"; 0 when there is none.               *)
Receiver ==
  LET S == {i \in 0..(Len(stack) - 1) : i = 0 \/ stack[i].pc # "ret"}
  IN  CHOOSE i \in S : \A j \in S : j <= i

return(v) ==
  /\ stack' = SubSeq(stack, 1, Receiver)
  /\ ret' = [from |-> Top, val |-> v]
  /\ IF Receiver = 0
     THEN status' = "returned" /\ result' = <<v>>
     ELSE UNCHANGED <<status, result>>
  /\ UNCHANGED <<error, raw, out>>

throw(msg) ==
  /\ stack' = <<>>
  /\ status' = "thrown"
  /\ error' = msg
  /\ UNCHANGED <<ret, result, raw, out>>

expect(la, types, then) ==
  IF hasMore(la) /\ la.type \in types
  THEN pop /\ then
  ELSE stay /\ throw("syntax error")

(***************************************************************************)
(* Activation records                                                      *)
(***************************************************************************)
NoToken == [type |-> "none", text |-> <<>>]
NoNode == [type |-> "none"]

Entry(f, at) ==
  CASE f = "parseProgram" -> [fn |-> f, pc |-> "loop", at |-> at, items |-> <<>>]
    [] f = "parseItem" -> [fn |-> f, pc |-> "start", at |-> at]
    [] f = "parseDef" ->
         [fn |-> f, pc |-> "let", at |-> at, name |-> <<>>, patterns |-> <<>>]
    [] f = "parseTerm" -> [fn |-> f, pc |-> "start", at |-> at, term |-> NoNode]
    [] f = "parseTerm1" -> [fn |-> f, pc |-> "start", at |-> at]
    [] f = "parseTreeOrVarOrApp" ->
         [fn |-> f, pc |-> "start", at |-> at, start |-> NoToken, text |-> <<>>,
          terms |-> <<>>]
    [] f = "parseMatchTerm" ->
         [fn |-> f, pc |-> "match", at |-> at, terms |-> <<>>, clauses |-> <<>>]
    [] f = "parseMatchClause" ->
         [fn |-> f, pc |-> "start", at |-> at, patterns |-> <<>>]
    [] f = "parsePattern" -> [fn |-> f, pc |-> "start", at |-> at, pat |-> NoNode]
    [] f = "parsePattern1" -> [fn |-> f, pc |-> "start", at |-> at]
    [] f = "parseTreePattern" ->
         [fn |-> f, pc |-> "start", at |-> at, start |-> NoToken, text |-> <<>>,
          children |-> <<>>]
    [] f = "parseVarOrAsPattern" ->
         [fn |-> f, pc |-> "start", at |-> at, text |-> <<>>]

EntryCommaSep(parseElt, stopSet, at) ==
  [fn |-> "parseCommaSep", pc |-> "start", at |-> at, parseElt |-> parseElt,
   stopSet |-> stopSet, elts |-> <<>>]

NoRet == [from |-> [fn |-> "none", pc |-> "none", at |-> 0], val |-> NoNode]

(***************************************************************************)
(* AST nodes                                                               *)
(***************************************************************************)
TreeTerm(functor, children) ==
  [type |-> "treeTerm", functor |-> functor, children |-> children]
VarTerm(text) == [type |-> "varTerm", text |-> text]
AppTerm(opName, rands) == [type |-> "appTerm", opName |-> opName, rands |-> rands]
ConsTerm(head, tail) == [type |-> "consTerm", head |-> head, tail |-> tail]
StringTerm(text) == [type |-> "stringTerm", text |-> text]
ListTerm(elts) == [type |-> "listTerm", elts |-> elts]
MatchTerm(terms, clauses) ==
  [type |-> "matchTerm", terms |-> terms, clauses |-> clauses]
MatchClause(patterns, body) == [patterns |-> patterns, body |-> body]
TreePattern(functor, children) ==
  [type |-> "treePattern", functor |-> functor, children |-> children]
VarPattern(text) == [type |-> "varPattern", text |-> text]
WildcardPattern == [type |-> "wildcardPattern"]
AsPattern(name, pattern) == [type |-> "asPattern", name |-> name, pattern |-> pattern]
ConsPattern(head, tail) == [type |-> "consPattern", head |-> head, tail |-> tail]
StringPattern(text) == [type |-> "stringPattern", text |-> text]
ListPattern(elts) == [type |-> "listPattern", elts |-> elts]

(***************************************************************************)
(* parseProgram, parseItem, parseDef                                       *)
(***************************************************************************)
parseProgram_loop ==
  /\ Running("parseProgram", "loop")
  /\ \E la \in Lookaheads :
       /\ look(la)
       /\ stay
       /\ IF hasMore(la)
          THEN call([Top EXCEPT !.pc = "item"], Entry("parseItem", pos))
          ELSE return(Top.items)

(* parseProgram asking for the terminator only between items. *)
parseProgram_item_separator ==
  /\ Running("parseProgram", "item")
  /\ \E la \in Lookaheads :
       /\ look(la)
       /\ IF hasMore(la)
          THEN expect(la, {"semi"},
                      goto([Top EXCEPT !.pc = "loop", !.items = Append(@, ret.val)]))
          ELSE stay /\ goto([Top EXCEPT !.pc = "loop", !.items = Append(@, ret.val)])

parseProgram_item ==
  /\ Running("parseProgram", "item")
  /\ \E la \in Lookaheads :
       /\ look(la)
       /\ expect(la, {"semi"},
                 goto([Top EXCEPT !.pc = "loop", !.items = Append(@, ret.val)]))

parseItem_start ==
  /\ Running("parseItem", "start")
  /\ \E la \in Lookaheads :
       /\ look(la)
       /\ stay
       /\ IF ~hasMore(la) THEN throw("syntax error")
          ELSE IF la.type = "letKw"
          THEN call([Top EXCEPT !.pc = "ret"], Entry("parseDef", pos))
          ELSE call([Top EXCEPT !.pc = "ret"], Entry("parseTerm", pos))

parseDef_let ==
  /\ Running("parseDef", "let")
  /\ \E la \in Lookaheads :
       /\ look(la)
       /\ expect(la, {"letKw"}, goto([Top EXCEPT !.pc = "name"]))

parseDef_name ==
  /\ Running("parseDef", "name")
  /\ \E la \in Lookaheads :
       /\ look(la)
       /\ expect(la, {"ident"}, goto([Top EXCEPT !.pc = "params", !.name = la.text]))

parseDef_params ==
  /\ Running("parseDef", "params")
  /\ \E la \in Lookaheads :
       /\ look(la)
       /\ IF hasMore(la) /\ la.type = "lParen"
          THEN /\ pop
               /\ call([Top EXCEPT !.pc = "rParen"],
                       EntryCommaSep("parsePattern", {"rParen"}, pos + 1))
          ELSE stay /\ goto([Top EXCEPT !.pc = "eq"])

(* parseDef dropping the result of parseCommaSep. *)
parseDef_rParen_dropped ==
  /\ Running("parseDef", "rParen")
  /\ \E la \in Lookaheads :
       /\ look(la)
       /\ expect(la, {"rParen"}, goto([Top EXCEPT !.pc = "eq"]))

parseDef_rParen ==
  /\ Running("parseDef", "rParen")
  /\ \E la \in Lookaheads :
       /\ look(la)
       /\ expect(la, {"rParen"},
                 goto([Top EXCEPT !.pc = "eq", !.patterns = ret.val]))

parseDef_eq ==
  /\ Running("parseDef", "eq")
  /\ \E la \in Lookaheads :
       /\ look(la)
       /\ expect(la, {"eq"},
                 call([Top EXCEPT !.pc = "body"], Entry("parseTerm", pos + 1)))

parseDef_body ==
  /\ Running("parseDef", "body")
  /\ nolook
  /\ stay
  /\ return([type |-> "def", patterns |-> Top.patterns, name |-> Top.name,
             body |-> ret.val])

(***************************************************************************)
(* Term grammar                                                            *)
(***************************************************************************)
(* parseTerm_while parsing the tail with parseTerm1: the loop then folds the *)
(* operands to the left.                                                    *)
parseTerm_while_leftAssoc(term) ==
  \E la \in Lookaheads :
    /\ look(la)
    /\ IF hasMore(la) /\ la.type = "colon"
       THEN /\ pop
            /\ call([Top EXCEPT !.pc = "tail", !.term = term],
                    Entry("parseTerm1", pos + 1))
       ELSE stay /\ return(term)

(* The while loop of parseTerm with `term` as the term so far. *)
parseTerm_while(term) ==
  \E la \in Lookaheads :
    /\ look(la)
    /\ IF hasMore(la) /\ la.type = "colon"
       THEN /\ pop
            /\ call([Top EXCEPT !.pc = "tail", !.term = term],
                    Entry("parseTerm", pos + 1))
       ELSE stay /\ return(term)

parseTerm_start ==
  /\ Running("parseTerm", "start")
  /\ nolook
  /\ stay
  /\ call([Top EXCEPT !.pc = "first"], Entry("parseTerm1", pos))

parseTerm_first ==
  /\ Running("parseTerm", "first")
  /\ parseTerm_while(ret.val)

parseTerm_tail ==
  /\ Running("parseTerm", "tail")
  /\ parseTerm_while(ConsTerm(Top.term, ret.val))

parseTerm1_start ==
  /\ Running("parseTerm1", "start")
  /\ \E la \in Lookaheads :
       /\ look(la)
       /\ IF ~hasMore(la) THEN stay /\ throw("syntax error")
          ELSE IF la.type \in {"bareAtom", "quotedAtom", "ident"}
          THEN stay /\ call([Top EXCEPT !.pc = "ret"],
                            Entry("parseTreeOrVarOrApp", pos))
          ELSE IF la.type = "string"
          THEN pop /\ return(StringTerm(getStringText(la.text)))
          ELSE IF la.type = "lBracket"
          THEN /\ pop
               /\ call([Top EXCEPT !.pc = "rBracket"],
                       EntryCommaSep("parseTerm", {"rBracket"}, pos + 1))
          ELSE IF la.type = "lParen"
          THEN pop /\ call([Top EXCEPT !.pc = "rParen"], Entry("parseTerm", pos + 1))
          ELSE IF la.type = "matchKw"
          THEN stay /\ call([Top EXCEPT !.pc = "ret"], Entry("parseMatchTerm", pos))
          ELSE stay /\ throw("expected a term")

parseTerm1_rBracket ==
  /\ Running("parseTerm1", "rBracket")
  /\ \E la \in Lookaheads :
       look(la) /\ expect(la, {"rBracket"}, return(ListTerm(ret.val)))

parseTerm1_rParen ==
  /\ Running("parseTerm1", "rParen")
  /\ \E la \in Lookaheads :
       look(la) /\ expect(la, {"rParen"}, return(ret.val))

(* treeOrVarOrApp without the test of terms.length: an application whenever *)
(* the start token is an identifier.                                        *)
treeOrVarOrApp_alwaysApp(start, text, terms) ==
  IF start.type = "ident" THEN AppTerm(text, terms) ELSE TreeTerm(text, terms)

(* treeOrVarOrApp testing terms.length first: a childless atom becomes a *)
(* variable.                                                              *)
treeOrVarOrApp_lengthFirst(start, text, terms) ==
  IF Len(terms) > 0
  THEN IF start.type = "ident" THEN AppTerm(text, terms) ELSE TreeTerm(text, terms)
  ELSE VarTerm(text)

(* Lines 251-270 of parseTreeOrVarOrApp: the node built from start, text, terms. *)
treeOrVarOrApp(start, text, terms) ==
  IF start.type = "ident"
  THEN IF Len(terms) > 0 THEN AppTerm(text, terms) ELSE VarTerm(text)
  ELSE TreeTerm(text, terms)

parseTreeOrVarOrApp_start ==
  /\ Running("parseTreeOrVarOrApp", "start")
  /\ \E la \in Lookaheads :
       /\ look(la)
       /\ expect(la, {"bareAtom", "quotedAtom", "ident"},
                 goto([Top EXCEPT !.pc = "args", !.start = la,
                                  !.text = IF la.type = "quotedAtom"
                                           THEN getStringText(la.text)
                                           ELSE la.text]))

parseTreeOrVarOrApp_args ==
  /\ Running("parseTreeOrVarOrApp", "args")
  /\ \E la \in Lookaheads :
       /\ look(la)
       /\ IF hasMore(la) /\ la.type = "lParen"
          THEN /\ pop
               /\ call([Top EXCEPT !.pc = "rParen"],
                       EntryCommaSep("parseTerm", {"rParen"}, pos + 1))
          ELSE stay /\ return(treeOrVarOrApp(Top.start, Top.text, Top.terms))

parseTreeOrVarOrApp_rParen ==
  /\ Running("parseTreeOrVarOrApp", "rParen")
  /\ \E la \in Lookaheads :
       /\ look(la)
       /\ expect(la, {"rParen"},
                 return(treeOrVarOrApp(Top.start, Top.text, ret.val)))

parseMatchTerm_match ==
  /\ Running("parseMatchTerm", "match")
  /\ \E la \in Lookaheads :
       /\ look(la)
       /\ expect(la, {"matchKw"},
                 call([Top EXCEPT !.pc = "lCurly"],
                      EntryCommaSep("parseTerm", {"lCurly"}, pos + 1)))

parseMatchTerm_lCurly ==
  /\ Running("parseMatchTerm", "lCurly")
  /\ \E la \in Lookaheads :
       /\ look(la)
       /\ expect(la, {"lCurly"},
                 call([Top EXCEPT !.pc = "rCurly", !.terms = ret.val],
                      EntryCommaSep("parseMatchClause", {"rCurly"}, pos + 1)))

parseMatchTerm_rCurly ==
  /\ Running("parseMatchTerm", "rCurly")
  /\ \E la \in Lookaheads :
       look(la) /\ expect(la, {"rCurly"}, return(MatchTerm(Top.terms, ret.val)))

parseMatchClause_start ==
  /\ Running("parseMatchClause", "start")
  /\ nolook
  /\ stay
  /\ call([Top EXCEPT !.pc = "arrow"], EntryCommaSep("parsePattern", {"arrow"}, pos))

parseMatchClause_arrow ==
  /\ Running("parseMatchClause", "arrow")
  /\ \E la \in Lookaheads :
       /\ look(la)
       /\ expect(la, {"arrow"},
                 call([Top EXCEPT !.pc = "body", !.patterns = ret.val],
                      Entry("parseTerm", pos + 1)))

parseMatchClause_body ==
  /\ Running("parseMatchClause", "body")
  /\ nolook
  /\ stay
  /\ return(MatchClause(Top.patterns, ret.val))

(***************************************************************************)
(* Pattern grammar                                                         *)
(***************************************************************************)
(* The while loop of parsePattern with `pat` as the pattern so far. *)
parsePattern_while(pat) ==
  \E la \in Lookaheads :
    /\ look(la)
    /\ IF hasMore(la) /\ la.type = "colon"
       THEN /\ pop
            /\ call([Top EXCEPT !.pc = "tail", !.pat = pat],
                    Entry("parsePattern", pos + 1))
       ELSE stay /\ return(pat)

parsePattern_start ==
  /\ Running("parsePattern", "start")
  /\ nolook
  /\ stay
  /\ call([Top EXCEPT !.pc = "first"], Entry("parsePattern1", pos))

parsePattern_first ==
  /\ Running("parsePattern", "first")
  /\ parsePattern_while(ret.val)

parsePattern_tail ==
  /\ Running("parsePattern", "tail")
  /\ parsePattern_while(ConsPattern(Top.pat, ret.val))

parsePattern1_start ==
  /\ Running("parsePattern1", "start")
  /\ \E la \in Lookaheads :
       /\ look(la)
       /\ IF ~hasMore(la) THEN stay /\ throw("syntax error")
          ELSE IF la.type \in {"bareAtom", "quotedAtom"}
          THEN stay /\ call([Top EXCEPT !.pc = "ret"], Entry("parseTreePattern", pos))
          ELSE IF la.type = "wildcard"
          THEN pop /\ return(WildcardPattern)
          ELSE IF la.type = "ident"
          THEN stay /\ call([Top EXCEPT !.pc = "ret"],
                            Entry("parseVarOrAsPattern", pos))
          ELSE IF la.type = "string"
          THEN pop /\ return(StringPattern(getStringText(la.text)))
          ELSE IF la.type = "lBracket"
          THEN /\ pop
               /\ call([Top EXCEPT !.pc = "rBracket"],
                       EntryCommaSep("parsePattern", {"rBracket"}, pos + 1))
          ELSE IF la.type = "lParen"
          THEN pop /\ call([Top EXCEPT !.pc = "rParen"],
                           Entry("parsePattern", pos + 1))
          ELSE stay /\ throw("expected a pattern")

parsePattern1_rBracket ==
  /\ Running("parsePattern1", "rBracket")
  /\ \E la \in Lookaheads :
       look(la) /\ expect(la, {"rBracket"}, return(ListPattern(ret.val)))

parsePattern1_rParen ==
  /\ Running("parsePattern1", "rParen")
  /\ \E la \in Lookaheads :
       look(la) /\ expect(la, {"rParen"}, return(ret.val))

parseTreePattern_start ==
  /\ Running("parseTreePattern", "start")
  /\ \E la \in Lookaheads :
       /\ look(la)
       /\ expect(la, {"bareAtom", "quotedAtom"},
                 goto([Top EXCEPT !.pc = "args", !.start = la,
                                  !.text = IF la.type = "quotedAtom"
                                           THEN getStringText(la.text)
                                           ELSE la.text]))

parseTreePattern_args ==
  /\ Running("parseTreePattern", "args")
  /\ \E la \in Lookaheads :
       /\ look(la)
       /\ IF hasMore(la) /\ la.type = "lParen"
          THEN /\ pop
               /\ call([Top EXCEPT !.pc = "rParen"],
                       EntryCommaSep("parsePattern", {"rParen"}, pos + 1))
          ELSE stay /\ return(TreePattern(Top.text, Top.children))

parseTreePattern_rParen ==
  /\ Running("parseTreePattern", "rParen")
  /\ \E la \in Lookaheads :
       look(la) /\ expect(la, {"rParen"}, return(TreePattern(Top.text, ret.val)))

parseVarOrAsPattern_start ==
  /\ Running("parseVarOrAsPattern", "start")
  /\ \E la \in Lookaheads :
       /\ look(la)
       /\ expect(la, {"ident"}, goto([Top EXCEPT !.pc = "amp", !.text = la.text]))

parseVarOrAsPattern_amp ==
  /\ Running("parseVarOrAsPattern", "amp")
  /\ \E la \in Lookaheads :
       /\ look(la)
       /\ IF hasMore(la) /\ la.type = "amp"
          THEN pop /\ call([Top EXCEPT !.pc = "inner"], Entry("parsePattern", pos + 1))
          ELSE stay /\ return(VarPattern(Top.text))

parseVarOrAsPattern_inner ==
  /\ Running("parseVarOrAsPattern", "inner")
  /\ nolook
  /\ stay
  /\ return(AsPattern(Top.text, ret.val))

(***************************************************************************)
(* parseCommaSep                                                           *)
(***************************************************************************)
callElt(frame, at) ==
  IF frame.parseElt = "parseMatchClause"
  THEN call(frame, Entry("parseMatchClause", at))
  ELSE IF frame.parseElt = "parsePattern"
  THEN call(frame, Entry("parsePattern", at))
  ELSE call(frame, Entry("parseTerm", at))

parseCommaSep_start ==
  /\ Running("parseCommaSep", "start")
  /\ \E la \in Lookaheads :
       /\ look(la)
       /\ stay
       /\ IF ~hasMore(la) \/ la.type \in Top.stopSet
          THEN return(Top.elts)
          ELSE callElt([Top EXCEPT !.pc = "elt"], pos)

(* parseCommaSep_elt peeking at the comma instead of consuming it. *)
parseCommaSep_elt_peekComma ==
  /\ Running("parseCommaSep", "elt")
  /\ \E la \in Lookaheads :
       /\ look(la)
       /\ stay
       /\ LET elts == Append(Top.elts, ret.val)
          IN  IF ~hasMore(la) \/ la.type \in Top.stopSet
              THEN return(elts)
              ELSE IF la.type = "comma"
              THEN goto([Top EXCEPT !.pc = "comma", !.elts = elts])
              ELSE throw("syntax error")

(* parseCommaSep_elt ending the list at any token that is not a comma. *)
parseCommaSep_elt_breakOnOther ==
  /\ Running("parseCommaSep", "elt")
  /\ \E la \in Lookaheads :
       /\ look(la)
       /\ LET elts == Append(Top.elts, ret.val)
          IN  IF ~hasMore(la) \/ la.type # "comma"
              THEN stay /\ return(elts)
              ELSE expect(la, {"comma"},
                          goto([Top EXCEPT !.pc = "comma", !.elts = elts]))

(* elts.push(parseElt(l)), then the loop up to and including expect(comma). *)
parseCommaSep_elt ==
  /\ Running("parseCommaSep", "elt")
  /\ \E la \in Lookaheads :
       /\ look(la)
       /\ LET elts == Append(Top.elts, ret.val)
          IN  IF ~hasMore(la) \/ la.type \in Top.stopSet
              THEN stay /\ return(elts)
              ELSE expect(la, {"comma"},
                          goto([Top EXCEPT !.pc = "comma", !.elts = elts]))

(* parseCommaSep_comma testing only hasMore at line 397: an element must *)
(* follow every comma that is not the last token.                        *)
parseCommaSep_comma_noTrailing ==
  /\ Running("parseCommaSep", "comma")
  /\ \E la \in Lookaheads :
       /\ look(la)
       /\ stay
       /\ IF ~hasMore(la)
          THEN return(Top.elts)
          ELSE callElt([Top EXCEPT !.pc = "elt"], pos)

(* The rest of the loop body, after expect(comma). *)
parseCommaSep_comma ==
  /\ Running("parseCommaSep", "comma")
  /\ \E la \in Lookaheads :
       /\ look(la)
       /\ stay
       /\ IF ~hasMore(la) \/ la.type \in Top.stopSet
          THEN return(Top.elts)
          ELSE callElt([Top EXCEPT !.pc = "elt"], pos)

(***************************************************************************)
(* The parser run on a token stream                                        *)
(***************************************************************************)
Start(n) ==
  /\ limit = n
  /\ toks = <<>>
  /\ pos = 0
  /\ ended = FALSE
  /\ stack = <<Entry("parseProgram", 0)>>
  /\ ret = NoRet
  /\ status = "running"
  /\ error = ""
  /\ result = <<>>
  /\ raw = <<>>
  /\ out = <<>>

Init == Start(MaxLen)

LiveInit == Start(MaxLenLive)

parseProgram == parseProgram_loop \/ parseProgram_item
parseItem == parseItem_start
parseDef ==
  \/ parseDef_let
  \/ parseDef_name
  \/ parseDef_params
  \/ parseDef_rParen
  \/ parseDef_eq
  \/ parseDef_body
parseTerm == parseTerm_start \/ parseTerm_first \/ parseTerm_tail
parseTerm1 ==
  \/ parseTerm1_start
  \/ parseTerm1_rBracket
  \/ parseTerm1_rParen
parseTreeOrVarOrApp ==
  \/ parseTreeOrVarOrApp_start
  \/ parseTreeOrVarOrApp_args
  \/ parseTreeOrVarOrApp_rParen
parseMatchTerm == parseMatchTerm_match \/ parseMatchTerm_lCurly \/ parseMatchTerm_rCurly
parseMatchClause ==
  parseMatchClause_start \/ parseMatchClause_arrow \/ parseMatchClause_body
parsePattern == parsePattern_start \/ parsePattern_first \/ parsePattern_tail
parsePattern1 ==
  \/ parsePattern1_start
  \/ parsePattern1_rBracket
  \/ parsePattern1_rParen
parseTreePattern ==
  \/ parseTreePattern_start
  \/ parseTreePattern_args
  \/ parseTreePattern_rParen
parseVarOrAsPattern ==
  \/ parseVarOrAsPattern_start
  \/ parseVarOrAsPattern_amp
  \/ parseVarOrAsPattern_inner
parseCommaSep == parseCommaSep_start \/ parseCommaSep_elt \/ parseCommaSep_comma

Next ==
  \/ parseProgram
  \/ parseItem
  \/ parseDef
  \/ parseTerm
  \/ parseTerm1
  \/ parseTreeOrVarOrApp
  \/ parseMatchTerm
  \/ parseMatchClause
  \/ parsePattern
  \/ parsePattern1
  \/ parseTreePattern
  \/ parseVarOrAsPattern
  \/ parseCommaSep

Spec == Init /\ [][Next]_vars

(* The parser is sequential code: a block that can run does run. *)
LiveSpec == LiveInit /\ [][Next]_vars /\ WF_vars(Next)

(***************************************************************************)
(* getStringText applied to a raw quoted text                              *)
(***************************************************************************)
Quotes == {SQ, DQ}

RawTexts ==
  { t \in UNION {[1..n -> Chars] : n \in 2..MaxRaw} :
      t[1] \in Quotes /\ t[Len(t)] = t[1] }

StrInit ==
  /\ raw \in RawTexts
  /\ out = <<>>
  /\ toks = <<>>
  /\ pos = 0
  /\ ended = FALSE
  /\ limit = 0
  /\ stack = <<>>
  /\ ret = NoRet
  /\ status = "text"
  /\ error = ""
  /\ result = <<>>

unescape ==
  /\ status = "text"
  /\ out = <<>>
  /\ out' = <<getStringText(raw)>>
  /\ UNCHANGED <<raw, toks, pos, ended, limit, stack, ret, status, error, result>>

StrNext == unescape

StrSpec == StrInit /\ [][StrNext]_vars

(***************************************************************************)
(* Properties                                                              *)
(***************************************************************************)
(* The type of the i-th token of the stream, "eof" past its end. *)
tokAt(i) == IF i >= 1 /\ i <= Len(toks) THEN toks[i].type ELSE "eof"

(* The last call that returned was a call of f. *)
Returned(f) == ret.from.fn = f

Atoms == {"bareAtom", "quotedAtom"}

(* The token under the cursor as far as the parser knows it. *)
current == IF pos < Len(toks) THEN toks[pos + 1] ELSE EOF

(* The token a step that looks at the stream finds under the cursor. *)
found == IF pos < Len(toks') THEN toks'[pos + 1] ELSE EOF

(* P holds of every activation record of f that is running or has just *)
(* returned.                                                            *)
EveryFrame(f, P(_)) ==
  /\ \A i \in 1..Len(stack) : stack[i].fn = f => P(stack[i])
  /\ Returned(f) => P(ret.from)

(* C1 as stated: parseTreeOrVarOrApp turns an identifier into an AppTerm    *)
(* exactly when a "(" follows it, an empty argument list included, and into *)
(* a VarTerm otherwise.                                                     *)
C1_AppIffParen ==
  Returned("parseTreeOrVarOrApp") /\ ret.from.start.type = "ident" =>
    /\ ret.val.type \in {"appTerm", "varTerm"}
    /\ ret.val.type = "appTerm" <=> tokAt(ret.from.at + 2) = "lParen"

(* C1 amended: parseTreeOrVarOrApp turns an identifier into an AppTerm      *)
(* exactly when a "(" and a non-empty argument list follow it; an           *)
(* identifier with no "(" or with the empty list "()" becomes a VarTerm.    *)
C1_AppIffArgs ==
  Returned("parseTreeOrVarOrApp") /\ ret.from.start.type = "ident" =>
    /\ ret.val.type \in {"appTerm", "varTerm"}
    /\ ret.val.type = "appTerm" <=>
         tokAt(ret.from.at + 2) = "lParen" /\ tokAt(ret.from.at + 3) # "rParen"
    /\ ret.val.type = "appTerm" => Len(ret.val.rands) > 0
    /\ ret.val.type = "appTerm" => ret.val.opName = ret.from.start.text
    /\ ret.val.type = "varTerm" => ret.val.text = ret.from.start.text

(* C1's case: x() has been parsed, to a VarTerm. *)
C1_Witness ==
  /\ Returned("parseTreeOrVarOrApp")
  /\ ret.from.start.type = "ident"
  /\ tokAt(ret.from.at + 2) = "lParen"
  /\ tokAt(ret.from.at + 3) = "rParen"
  /\ ret.val.type = "varTerm"

(* The parameter list of a parseDef record is known. *)
PatternsKnown(f) == f.pc \in {"eq", "body"}

(* C2 as stated: the patterns of a Def are empty exactly when no "(" *)
(* followed the name.                                                *)
C2_EmptyIffNoParen ==
  /\ LET P(f) == PatternsKnown(f) =>
                   (f.patterns = <<>> <=> tokAt(f.at + 3) # "lParen")
     IN  EveryFrame("parseDef", P)
  /\ Returned("parseDef") => ret.val.patterns = ret.from.patterns

(* C2 amended: the patterns of a Def are empty exactly when no "(" followed *)
(* the name or the parenthesized list was the empty list "()".              *)
C2_EmptyIffNoPatterns ==
  /\ LET P(f) == PatternsKnown(f) =>
                   (f.patterns = <<>> <=>
                      tokAt(f.at + 3) # "lParen" \/ tokAt(f.at + 4) = "rParen")
     IN  EveryFrame("parseDef", P)
  /\ Returned("parseDef") => ret.val.patterns = ret.from.patterns

(* C2's case: let x() = ... has been parsed, to a Def without patterns. *)
C2_Witness ==
  /\ Returned("parseDef")
  /\ tokAt(ret.from.at + 3) = "lParen"
  /\ ret.val.patterns = <<>>

(* C3: every MatchTerm parseMatchTerm returns has at least one subject. *)
C3_SubjectsNonEmpty ==
  Returned("parseMatchTerm") => Len(ret.val.terms) > 0

(* C7: an atom (bare or quoted) at the start of a term or a pattern always  *)
(* yields a TreeTerm or a TreePattern whose functor is the atom's text, and *)
(* an identifier never yields one.                                          *)
C7_AtomsAreTrees ==
  /\ Returned("parseTreeOrVarOrApp") =>
       /\ ret.from.start = toks[ret.from.at + 1]
       /\ ret.from.start.type \in Atoms =>
            /\ ret.val.type = "treeTerm"
            /\ ret.val.functor =
                 IF ret.from.start.type = "quotedAtom"
                 THEN getStringText(ret.from.start.text)
                 ELSE ret.from.start.text
       /\ ret.from.start.type = "ident" => ret.val.type \in {"varTerm", "appTerm"}
  /\ Returned("parseTreePattern") =>
       /\ ret.from.start = toks[ret.from.at + 1]
       /\ ret.from.start.type \in Atoms
       /\ ret.val.type = "treePattern"
       /\ ret.val.functor =
            IF ret.from.start.type = "quotedAtom"
            THEN getStringText(ret.from.start.text)
            ELSE ret.from.start.text
  /\ Returned("parseVarOrAsPattern") =>
       /\ tokAt(ret.from.at + 1) = "ident"
       /\ ret.val.type \in {"varPattern", "asPattern"}
  /\ \A i \in 1..(Len(stack) - 1) :
       /\ stack[i].fn = "parseTerm1" /\ stack[i].pc = "ret" =>
            /\ tokAt(stack[i].at + 1) \in Atoms \cup {"ident"}
                  <=> stack[i + 1].fn = "parseTreeOrVarOrApp"
            /\ tokAt(stack[i].at + 1) = "matchKw"
                  <=> stack[i + 1].fn = "parseMatchTerm"
       /\ stack[i].fn = "parsePattern1" /\ stack[i].pc = "ret" =>
            /\ tokAt(stack[i].at + 1) \in Atoms
                  <=> stack[i + 1].fn = "parseTreePattern"
            /\ tokAt(stack[i].at + 1) = "ident"
                  <=> stack[i + 1].fn = "parseVarOrAsPattern"
  /\ Returned("parseTerm1") \/ Returned("parsePattern1") =>
       /\ tokAt(ret.from.at + 1) \notin Atoms \cup {"ident"}
       /\ ret.val.type \in {"treeTerm", "treePattern"} =>
            tokAt(ret.from.at + 1) = "lParen"

(* C7's case: a quoted atom without a child list has been parsed as a term. *)
C7_Witness ==
  /\ Returned("parseTreeOrVarOrApp")
  /\ ret.from.start.type = "quotedAtom"
  /\ tokAt(ret.from.at + 2) # "lParen"
  /\ ret.val.type = "treeTerm"
  /\ ret.val.children = <<>>

(* The sub-nodes of an AST node: those of a match clause are its patterns *)
(* and its body.                                                          *)
RECURSIVE clauseNodes(_)
clauseNodes(clauses) ==
  IF clauses = <<>> THEN <<>>
  ELSE Head(clauses).patterns \o <<Head(clauses).body>> \o clauseNodes(Tail(clauses))

subNodes(n) ==
  CASE n.type = "def" -> n.patterns \o <<n.body>>
    [] n.type \in {"treeTerm", "treePattern"} -> n.children
    [] n.type = "appTerm" -> n.rands
    [] n.type \in {"consTerm", "consPattern"} -> <<n.head, n.tail>>
    [] n.type \in {"listTerm", "listPattern"} -> n.elts
    [] n.type = "matchTerm" -> n.terms \o clauseNodes(n.clauses)
    [] n.type = "asPattern" -> <<n.pattern>>
    [] OTHER -> <<>>

(* No cons node of n has a cons node as its head. *)
RECURSIVE rightNested(_)
rightNested(n) ==
  /\ n.type \in {"consTerm", "consPattern"} => n.head.type # n.type
  /\ \A i \in 1..Len(subNodes(n)) : rightNested(subNodes(n)[i])

(* C4: ":" is right-associative in terms and in patterns: the head of a    *)
(* cons node is the one operand before the ":", and is itself a cons node  *)
(* only when that operand is a parenthesized group; a program without      *)
(* parentheses has no cons node with a cons head.                          *)
C4_RightAssociative ==
  /\ LET P(f) == f.pc = "tail" /\ f.term.type = "consTerm" =>
                   tokAt(f.at + 1) = "lParen"
     IN  EveryFrame("parseTerm", P)
  /\ LET P(f) == f.pc = "tail" /\ f.pat.type = "consPattern" =>
                   tokAt(f.at + 1) = "lParen"
     IN  EveryFrame("parsePattern", P)
  /\ Returned("parseTerm") /\ ret.from.pc = "tail" =>
       /\ ret.val.type = "consTerm"
       /\ ret.val.head = ret.from.term
  /\ Returned("parsePattern") /\ ret.from.pc = "tail" =>
       /\ ret.val.type = "consPattern"
       /\ ret.val.head = ret.from.pat
  /\ status = "returned" /\ (\A i \in 1..Len(toks) : toks[i].type # "lParen") =>
       \A i \in 1..Len(result[1]) : rightNested(result[1][i])

(* C4's case: t1 : t2 : t3 without parentheses has been parsed. *)
C4_Witness ==
  /\ Returned("parseTerm")
  /\ ret.val.type = "consTerm"
  /\ ret.val.head.type # "consTerm"
  /\ ret.val.tail.type = "consTerm"
  /\ \A i \in 1..Len(toks) : toks[i].type # "lParen"

(* The token types an element of a comma-separated list can end with. *)
ElementEnds ==
  {"ident", "bareAtom", "quotedAtom", "string", "rParen", "rBracket", "rCurly",
   "wildcard"}

(* parseCommaSep has consumed a comma and finds the stop token next. *)
AtTrailingComma ==
  /\ Running("parseCommaSep", "comma")
  /\ found.type \in Top.stopSet

(* C5: in every comma-separated list a comma directly before the stop token *)
(* is accepted, and the list returned is the list of the elements before    *)
(* it; a comma that follows another comma or no element is never consumed,  *)
(* so a stream that has one is never parsed to the end.                     *)
C5_TrailingCommaOnly ==
  /\ [][AtTrailingComma =>
          /\ status' = "running"
          /\ Len(stack') = Len(stack) - 1
          /\ ret'.from.fn = "parseCommaSep"
          /\ ret'.val = Top.elts
          /\ pos' = pos]_vars
  /\ [](\A i \in 1..pos :
          toks[i].type = "comma" => i > 1 /\ toks[i - 1].type \in ElementEnds)
  /\ [](status = "returned" => pos = Len(toks))

(* C5's case: a list with a trailing comma has been returned and the stop *)
(* token is next.                                                         *)
C5_Witness ==
  /\ status = "running"
  /\ Returned("parseCommaSep")
  /\ ret.from.pc = "comma"
  /\ Len(ret.val) > 0
  /\ toks[pos].type = "comma"
  /\ current.type \in ret.from.stopSet

Semis == {i \in 1..Len(toks) : toks[i].type = "semi"}

NoBacktracking ==
  /\ pos' \in {pos, pos + 1}
  /\ Len(toks') >= Len(toks)
  /\ SubSeq(toks', 1, Len(toks)) = toks

(* A loop that goes round again has consumed a token: the terminator in *)
(* parseProgram, the comma in parseCommaSep, the ":" in parseTerm and   *)
(* parsePattern.                                                        *)
LoopProgress ==
  /\ Running("parseProgram", "item") /\ status' = "running" => pos' = pos + 1
  /\ Running("parseCommaSep", "elt") /\ Len(stack') >= Len(stack) =>
       pos' = pos + 1
  /\ Running("parseCommaSep", "comma") => toks[pos].type = "comma"
  /\ (Running("parseTerm", "first") \/ Running("parseTerm", "tail")
        \/ Running("parsePattern", "first") \/ Running("parsePattern", "tail"))
       /\ Len(stack') > Len(stack) => pos' = pos + 1

(* A function called again while it runs is entered further on in the *)
(* stream (parseCommaSep: with the same element parser).              *)
RecursionProgress ==
  \A i \in 1..Len(stack) : \A j \in (i + 1)..Len(stack) :
    /\ stack[i].fn = stack[j].fn
    /\ stack[i].fn = "parseCommaSep" => stack[i].parseElt = stack[j].parseElt
    => stack[j].at > stack[i].at

Content == SubSeq(raw, 2, Len(raw) - 1)

Escapes ==
  {i \in 1..(Len(Content) - 1) : Content[i] = BS /\ Content[i + 1] = raw[1]}

Kept == (1..Len(Content)) \ Escapes

(* C9: getStringText drops the first and the last character and the        *)
(* backslash of every backslash-quote pair whose quote is the opening      *)
(* quote; every other character stays, in its order.                       *)
C9_UnescapesMatchingQuote ==
  out # <<>> =>
    /\ Len(out[1]) = Cardinality(Kept)
    /\ \A i \in Kept : out[1][Cardinality({j \in Kept : j <= i})] = Content[i]

(* C9's case: a text with two matching escapes and a backslash that is *)
(* no escape has been unescaped.                                       *)
C9_Witness ==
  /\ out # <<>>
  /\ Cardinality(Escapes) = 2
  /\ Len(out[1]) = Len(raw) - 4

(* C10: parseCommaSep consumes nothing but commas, and a comma is no stop  *)
(* token; when it returns the stream is exhausted or the next token is a   *)
(* stop token; entered at a stop token or at the end of the stream it      *)
(* returns the empty list and leaves the cursor where it was.              *)
C10_StopTokenLeft ==
  [][/\ status = "running" /\ stack # <<>> /\ Top.fn = "parseCommaSep" =>
          /\ pos' # pos => found.type = "comma" /\ found.type \notin Top.stopSet
          /\ status' = "running" /\ Len(stack') < Len(stack) =>
               \/ pos = Len(toks') /\ ended'
               \/ found.type \in Top.stopSet
     /\ Running("parseCommaSep", "start")
          /\ (found = EOF \/ found.type \in Top.stopSet) =>
          /\ status' = "running"
          /\ Len(stack') = Len(stack) - 1
          /\ ret'.val = <<>>
          /\ pos' = pos
          /\ pos = Top.at]_vars

(* C10's case: parseCommaSep has returned a list and the stop token is *)
(* the next token.                                                     *)
C10_Witness ==
  /\ status = "running"
  /\ Returned("parseCommaSep")
  /\ Len(ret.val) = 2
  /\ current.type \in ret.from.stopSet
  /\ toks[pos].type # "comma"
====
